---- MODULE Spec2Model ----
(***************************************************************************)
(* Model of the CORD-19 metadata pipeline: the batch script Week8.py       *)
(* (sampler, cleaner, aggregations, image artifacts) and the interactive   *)
(* explorer app.py (load_data, filters, aggregations, CSV export).         *)
(*                                                                         *)
(* Text is a sequence of one-character strings.  A CSV file is a header    *)
(* (its set of columns) and a sequence of rows of text cells; a DataFrame  *)
(* has the same shape with typed cells, where a missing text cell is NaN,  *)
(* a missing number is NA and a missing timestamp is NaT.                  *)
(***************************************************************************)
EXTENDS Integers, Sequences, FiniteSets, TLC

(* ------------------------------ bounds -------------------------------- *)

\* Most data rows a metadata.csv of the model holds.
MaxSrcRows == 3

\* chunksize of the sampler (5000 in Week8.py), scaled to the model's files.
ChunkSize == 2

\* Ends of the "Top N journals" slider (5 and 25 in app.py), scaled.
TopNMin == 1

TopNMax == 2

\* Most distinct frames the CSV memo of one session holds in the model.
MaxMemo == 2

\* Longest journal column and largest n of the top_journals function runs.
MaxAggLen == 6

MaxAggN == 3

(* --------------------------- missing values --------------------------- *)

\* A missing text cell of a DataFrame (float NaN in an object column).
NaN == <<"NaN">>

\* A missing number (NaN in a float column, pd.NA in app.py's year column).
NA == -1

\* pd.NaT: the timestamp that errors='coerce' gives an unparsable date.
NaT == [year |-> NA, month |-> NA, day |-> NA]

isna(x) == x = NaN

(* -------------------------------- text -------------------------------- *)

\* "No abstract available"
NoAbstract ==
  <<"N","o"," ","a","b","s","t","r","a","c","t"," ",
    "a","v","a","i","l","a","b","l","e">>

\* "No title available"
NoTitle ==
  <<"N","o"," ","t","i","t","l","e"," ","a","v","a","i","l","a","b","l","e">>

Whitespace == {" ", "\t", "\n"}

\* str(x): the text itself, and "nan" for a missing cell.
Str(x) == IF isna(x) THEN <<"n","a","n">> ELSE x

\* len(s.split()): the number of maximal runs of non-whitespace characters.
WordCount(s) ==
  Cardinality({i \in 1..Len(s) :
                 /\ s[i] \notin Whitespace
                 /\ (i = 1 \/ s[i-1] \in Whitespace)})

\* s.strip()
RECURSIVE LStrip(_)
LStrip(s) ==
  IF s # <<>> /\ Head(s) \in Whitespace THEN LStrip(Tail(s)) ELSE s

RECURSIVE RStrip(_)
RStrip(s) ==
  IF s # <<>> /\ s[Len(s)] \in Whitespace
  THEN RStrip(SubSeq(s, 1, Len(s) - 1)) ELSE s

Strip(s) == RStrip(LStrip(s))

\* " ".join(texts)
RECURSIVE Join(_)
Join(texts) ==
  IF texts = <<>> THEN <<>>
  ELSE IF Len(texts) = 1 THEN texts[1]
  ELSE texts[1] \o <<" ">> \o Join(Tail(texts))

(* -------------------------------- dates ------------------------------- *)

Digits == <<"0","1","2","3","4","5","6","7","8","9">>

IsDigit(c) == \E d \in 1..10 : Digits[d] = c

DigitVal(c) == (CHOOSE d \in 1..10 : Digits[d] = c) - 1

RECURSIVE Number(_)
Number(s) ==
  IF s = <<>> THEN 0
  ELSE 10 * Number(SubSeq(s, 1, Len(s) - 1)) + DigitVal(s[Len(s)])

IsLeap(y) == y % 4 = 0 /\ (y % 100 # 0 \/ y % 400 = 0)

DaysIn(y, m) ==
  IF m = 2 THEN (IF IsLeap(y) THEN 29 ELSE 28)
  ELSE IF m \in {4, 6, 9, 11} THEN 30 ELSE 31

\* The texts of the form YYYY-MM-DD.
IsIsoShape(s) ==
  /\ Len(s) = 10
  /\ s[5] = "-" /\ s[8] = "-"
  /\ \A i \in {1,2,3,4,6,7,9,10} : IsDigit(s[i])

\* pd.to_datetime(cell, errors='coerce') on the dates of the model's files:
\* an ISO calendar date parses, anything else (missing, not a date, no such
\* month or day) becomes NaT and nothing is raised.
to_datetime(x) ==
  IF isna(x) \/ ~IsIsoShape(x) THEN NaT
  ELSE LET y == Number(SubSeq(x, 1, 4))
           m == Number(SubSeq(x, 6, 7))
           d == Number(SubSeq(x, 9, 10))
       IN IF y >= 1 /\ m \in 1..12 /\ d \in 1..DaysIn(y, m)
          THEN [year |-> y, month |-> m, day |-> d]
          ELSE NaT

\* Series.dt.year: NaN for NaT.
dt_year(t) == IF t = NaT THEN NA ELSE t.year

(* ------------------------------- frames ------------------------------- *)

\* No file at a path; no DataFrame bound yet.
NoFile == [cols |-> {}, rows |-> <<>>, bad |-> FALSE]

NoDf == [cols |-> {}, rows |-> <<>>]

\* The strings read_csv reads as missing (its default na_values; the
\* model's files use these two).
NaStrings == {<<>>, <<"N","A">>}

\* pd.read_csv on a well-formed file: every cell stays text, except that an
\* empty field and "NA" are read as NaN.
read_csv(file) ==
  [cols |-> file.cols,
   rows |-> [i \in 1..Len(file.rows) |->
              [c \in file.cols |->
                 IF file.rows[i][c] \in NaStrings THEN NaN
                 ELSE file.rows[i][c]]]]

\* DataFrame.to_csv(path, index=False): the header and every row, a missing
\* cell written as the empty field.
to_csv(d) ==
  [cols |-> d.cols,
   rows |-> [i \in 1..Len(d.rows) |->
              [c \in d.cols |-> IF isna(d.rows[i][c]) THEN <<>>
                                ELSE d.rows[i][c]]],
   bad |-> FALSE]

\* DataFrame.head(n) / the first chunk of a chunked read.
head(s, n) == SubSeq(s, 1, IF Len(s) < n THEN Len(s) ELSE n)

\* df[cols]
Project(d, cols) ==
  [cols |-> cols,
   rows |-> [i \in 1..Len(d.rows) |-> [c \in cols |-> d.rows[i][c]]]]

\* df[mask]: the rows at the positions where the mask is True, in the order
\* of the frame.
RECURSIVE TakeRows(_, _)
TakeRows(rows, mask) ==
  IF mask = {} THEN <<>>
  ELSE LET i == CHOOSE k \in mask : \A j \in mask : k <= j
       IN <<rows[i]>> \o TakeRows(rows, mask \ {i})

(* ------------------------------ the files ----------------------------- *)

AllCols ==
  {"cord_uid", "sha", "source_x", "title", "license", "abstract",
   "publish_time", "authors", "journal"}

\* The headers of the model's files: the full export; one lacking some of
\* the sparse columns, authors and source_x; one without publish_time; one
\* without title; one without journal.
Headers ==
  {AllCols,
   {"cord_uid", "sha", "title", "abstract", "publish_time", "journal"},
   {"cord_uid", "source_x", "title", "abstract", "authors", "journal"},
   {"cord_uid", "source_x", "abstract", "publish_time", "journal"},
   {"cord_uid", "source_x", "title", "abstract", "publish_time"}}

\* The data rows the model's files are made of (the cells as written in the
\* file; an empty field is <<>>).
Pool ==
  << [title |-> <<"c","o","v","i","d">>, abstract |-> <<"a"," ","b">>,
      publish_time |-> <<"2","0","1","9","-","1","2","-","3","1">>,
      journal |-> <<"A">>, source_x |-> <<"S">>],
     [title |-> <<>>, abstract |-> <<>>,
      publish_time |-> <<"n","/","a">>,
      journal |-> <<"B">>, source_x |-> <<>>],
     [title |-> <<"a"," ","b">>, abstract |-> <<" ","a"," "," ","b"," ","c"," ">>,
      publish_time |-> <<"2","0","2","0","-","0","1","-","1","5">>,
      journal |-> <<"B">>, source_x |-> <<"S">>],
     [title |-> <<"c","o","v","i","d">>, abstract |-> <<"x">>,
      publish_time |-> <<>>,
      journal |-> <<"N","A">>, source_x |-> <<"T">>],
     [title |-> <<>>, abstract |-> <<"x"," ","y">>,
      publish_time |-> <<"2","0","2","1","-","0","2","-","2","9">>,
      journal |-> <<"A">>, source_x |-> <<"T">>] >>

\* The cell of column c in the i-th row of a file whose data is Pool[p].
Cell(c, i, p) ==
  IF c = "cord_uid" THEN <<"u", Digits[i + 1]>>
  ELSE IF c \in {"sha", "license", "authors"} THEN <<"x">>
  ELSE Pool[p][c]

MakeFile(cols, ps) ==
  [cols |-> cols,
   rows |-> [i \in 1..Len(ps) |-> [c \in cols |-> Cell(c, i, ps[i])]],
   bad |-> FALSE]

\* The well-formed delimited files of the model, of up to n data rows.
Files(n) ==
  {MakeFile(cols, ps) :
     cols \in Headers,
     ps \in UNION {[1..k -> 1..Len(Pool)] : k \in 0..n}}

\* A file pandas cannot parse (empty, or with a torn row).
Malformed == [cols |-> {"cord_uid"}, rows |-> <<>>, bad |-> TRUE]

\* A valid sample left by an earlier run.
OldSample == MakeFile(AllCols, <<1, 3>>)

(* ------------------------------ the state ----------------------------- *)

VARIABLES
  entry,              \* the entry point that is run: "Week8" or "app"
  pc,                 \* where the script is
  err,                \* the exception that ended the run, "" if none
  source,             \* the file metadata.csv (NoFile if absent)
  sample,             \* the file metadata_sample.csv (NoFile if absent)
  plotsDir,           \* whether the directory plots/ exists
  plots,              \* the image files written under plots/
  rowsRead,           \* data rows of metadata.csv the chunk reader consumed
  df,                 \* the DataFrame df of the running script
  year_counts,        \* Week8.py:96, app.py:111
  top_journals,       \* Week8.py:110, app.py:125
  source_counts,      \* Week8.py:140, app.py:149
  cache,              \* what the cached load_data holds (NoDf: nothing yet)
  year_range,         \* the year slider's value <<lo, hi>>
  top_n,              \* the "Top N journals" slider's value
  selected_journals,  \* the multiselect's value, a set of journals
  df_filtered,        \* app.py:91-98
  shown,              \* what each section of the page shows
  csv_bytes,          \* app.py:169
  memo                \* the cache of convert_df_to_csv: frame -> bytes

vars ==
  <<entry, pc, err, source, sample, plotsDir, plots, rowsRead, df,
    year_counts, top_journals, source_counts, cache, year_range, top_n,
    selected_journals, df_filtered, shown, csv_bytes, memo>>

fsVars == <<source, plotsDir>>

aggVars == <<year_counts, top_journals, source_counts>>

appVars ==
  <<cache, year_range, top_n, selected_journals, df_filtered, shown,
    csv_bytes, memo>>

(* ------------------------- cleaning (both scripts) -------------------- *)

\* Week8.py:63-64
drop_cols ==
  {"sha", "license", "pmcid", "pubmed_id", "arxiv_id", "who_covidence_id",
   "has_full_text"}

\* fillna, changed: nothing is filled.
fillna_nothing(x, value) == x

\* Series.fillna(value)
fillna(x, value) == IF isna(x) THEN value ELSE x

\* drop, changed: the frame keeps its columns.
drop_nothing(d, cols) == d

\* df.drop(columns=cols, errors='ignore'): a column that is absent is skipped.
drop(d, cols) == Project(d, d.cols \ cols)

\* df[c] = <a value computed per row>
Assign(d, c, F(_)) ==
  [cols |-> d.cols \cup {c},
   rows |-> [i \in 1..Len(d.rows) |->
              [k \in d.cols \cup {c} |->
                 IF k = c THEN F(d.rows[i]) ELSE d.rows[i][k]]]]

\* len(str(x).split())
abstract_word_count(x) == WordCount(Str(x))

\* The columns Part 2 of Week8.py reads with df[...]: a KeyError without them.
CleanNeeds == {"abstract", "title", "publish_time"}

\* Clean, changed: the records without a title are dropped before cleaning.
Clean_dropna(d) ==
  LET kept == [cols |-> d.cols,
               rows |-> TakeRows(d.rows, {i \in 1..Len(d.rows) :
                                            ~isna(d.rows[i]["title"])})]
      d1 == Project(kept, kept.cols \ drop_cols)
      d2 == Assign(d1, "abstract",
                   LAMBDA r : fillna(r["abstract"], NoAbstract))
      d3 == Assign(d2, "publish_time", LAMBDA r : to_datetime(r["publish_time"]))
      d4 == Assign(d3, "year", LAMBDA r : dt_year(r["publish_time"]))
  IN Assign(d4, "abstract_word_count", LAMBDA r : WordCount(Str(r["abstract"])))

\* Week8.py:62-79, on a frame that has the columns of CleanNeeds.
Clean(d) ==
  LET d1 == drop(d, drop_cols)
      d2 == Assign(d1, "abstract",
                   LAMBDA r : fillna(r["abstract"], NoAbstract))
      d3 == Assign(d2, "title", LAMBDA r : fillna(r["title"], NoTitle))
      d4 == Assign(d3, "publish_time",
                   LAMBDA r : to_datetime(r["publish_time"]))
      d5 == Assign(d4, "year", LAMBDA r : dt_year(r["publish_time"]))
  IN Assign(d5, "abstract_word_count",
            LAMBDA r : abstract_word_count(r["abstract"]))

(* ----------------------------- aggregations --------------------------- *)

\* df[c] as the sequence of its values.
Column(d, c) == [i \in 1..Len(d.rows) |-> d.rows[i][c]]

Count(col, v) == Cardinality({i \in 1..Len(col) : col[i] = v})

\* The distinct values of a text column, the missing ones dropped.
Keys(col) == {col[i] : i \in {k \in 1..Len(col) : ~isna(col[k])}}

\* value_counts, changed: the counts are sorted ascending.
value_counts_ascending(col) ==
  LET ks == Keys(col)
      n == Cardinality(ks)
  IN {[i \in 1..n |-> <<f[i], Count(col, f[i])>>] :
        f \in {g \in [1..n -> ks] :
                 /\ \A i, j \in 1..n : i # j => g[i] # g[j]
                 /\ \A i \in 1..(n - 1) :
                      Count(col, g[i]) <= Count(col, g[i + 1])}}

\* Series.value_counts(): the distinct non-missing values with their counts,
\* in descending order of count.  pandas sorts the counts with
\* sort_values(ascending=False), whose sort (numpy quicksort) is not stable:
\* the order of the values of equal count is whichever that sort leaves, so
\* every such order is a possible result.
value_counts(col) ==
  LET ks == Keys(col)
      n == Cardinality(ks)
  IN {[i \in 1..n |-> <<f[i], Count(col, f[i])>>] :
        f \in {g \in [1..n -> ks] :
                 /\ \A i, j \in 1..n : i # j => g[i] # g[j]
                 /\ \A i \in 1..(n - 1) :
                      Count(col, g[i]) >= Count(col, g[i + 1])}}

\* df['year'].value_counts().sort_index(): the years that are not missing
\* with their counts, ascending in the year.
sort_index(col) ==
  LET ks == {col[i] : i \in {k \in 1..Len(col) : col[k] # NA}}
      n == Cardinality(ks)
      f == CHOOSE g \in [1..n -> ks] : \A i, j \in 1..n : i < j => g[i] < g[j]
  IN [i \in 1..n |-> <<f[i], Count(col, f[i])>>]

UpperCase == <<"A","B","C","D","E","F","G","H","I","J","K","L","M",
               "N","O","P","Q","R","S","T","U","V","W","X","Y","Z">>

LowerCase == <<"a","b","c","d","e","f","g","h","i","j","k","l","m",
               "n","o","p","q","r","s","t","u","v","w","x","y","z">>

\* str.lower()
Lower(s) ==
  [i \in 1..Len(s) |->
     IF \E k \in 1..26 : UpperCase[k] = s[i]
     THEN LowerCase[CHOOSE k \in 1..26 : UpperCase[k] = s[i]]
     ELSE s[i]]

\* " ".join(df['title'].dropna().astype(str).tolist()).lower()
AllTitles(d) ==
  LET col == Column(d, "title")
      kept == TakeRows(col, {i \in 1..Len(col) : ~isna(col[i])})
  IN Lower(Join(kept))

\* The words WordCloud.generate finds in a text: its tokens are runs of two
\* or more word characters (regexp \w[\w']+).  Its stopword list is left
\* out: of the model's texts only "no" of the placeholder title is one.
CloudWords(text) ==
  {i \in 1..Len(text) :
     /\ text[i] \notin Whitespace
     /\ (i = 1 \/ text[i - 1] \in Whitespace)
     /\ i < Len(text) /\ text[i + 1] \notin Whitespace}

\* WordCloud(...).generate(text): ValueError when the text has no word.
generate(text) == IF CloudWords(text) = {} THEN "ValueError" ELSE ""

\* What drawing a plot of a series does: seaborn and matplotlib draw a
\* non-empty series; on an empty one the library version decides whether the
\* call draws an empty figure or raises.
Draw(series) == IF series = <<>> THEN {"", "ValueError"} ELSE {""}

\* plt.savefig("plots/...") needs the directory.
savefig(dirExists) == IF dirExists THEN "" ELSE "FileNotFoundError"

\* head(10) of the top journals and sources (Week8.py:110, 140; app.py:149).
Top10 == 10

\* top_journals(records, n): df['journal'].value_counts().head(n), every
\* result the sort of value_counts can give.
TopJournals(d, n) == {head(vc, n) : vc \in value_counts(Column(d, "journal"))}

(* ------------------------- Week8.py, the batch run -------------------- *)

\* What a failed to_csv can leave at the path: nothing written at all, or
\* the header and some of the rows, the last of them possibly torn.
PartialWrites(file) ==
  {[cols |-> {}, rows |-> <<>>, bad |-> TRUE]} \cup
  {[cols |-> file.cols, rows |-> head(file.rows, k), bad |-> b] :
     k \in 0..(Len(file.rows) - 1), b \in BOOLEAN}

\* FirstChunk, changed: the file is read whole, without chunksize.
FirstChunk_whole(d) == d

\* next(chunk_iter): the first chunk of the chunked read (Week8.py:14-15).
FirstChunk(d) == [cols |-> d.cols, rows |-> head(d.rows, ChunkSize)]

\* Step2Target, changed: a sample that does not parse is reported and the
\* run goes on.
Step2Target_no_exit(exists, parsed) == IF ~exists THEN "exit" ELSE "clean"

\* Where Step 2 goes (Week8.py:25-34): on to the report only with a sample
\* file that parsed.
Step2Target(exists, parsed) ==
  IF ~exists THEN "exit" ELSE IF ~parsed THEN "exit" ELSE "clean"

\* Week8.py:10-22.  Without metadata.csv the trimming is skipped.  With it,
\* the first chunk is read and written straight to metadata_sample.csv; any
\* exception ends the run.
Step1 ==
  /\ entry = "Week8" /\ pc = "step1"
  /\ UNCHANGED <<entry, fsVars, plots, df, aggVars, appVars>>
  /\ \/ /\ source = NoFile
        /\ pc' = "step2"
        /\ UNCHANGED <<err, sample, rowsRead>>
     \/ /\ source # NoFile /\ source.bad
        /\ pc' = "exit" /\ err' = "ParserError"
        /\ UNCHANGED <<sample, rowsRead>>
     \/ /\ source # NoFile /\ ~source.bad
        /\ LET sample_df == FirstChunk(read_csv(source))
           IN /\ rowsRead' = Len(sample_df.rows)
              /\ \/ /\ sample' = to_csv(sample_df)
                    /\ pc' = "step2"
                    /\ UNCHANGED err
                 \/ /\ sample' \in PartialWrites(to_csv(sample_df)) \cup {sample}
                    /\ pc' = "exit" /\ err' = "OSError"

\* Week8.py:25-34.
Step2 ==
  /\ entry = "Week8" /\ pc = "step2"
  /\ pc' = Step2Target(sample # NoFile, ~sample.bad)
  /\ df' = IF sample # NoFile /\ ~sample.bad THEN read_csv(sample) ELSE df
  /\ err' = IF sample # NoFile /\ sample.bad THEN "ParserError" ELSE err
  /\ UNCHANGED <<entry, fsVars, sample, plots, rowsRead, aggVars, appVars>>

\* Week8.py:53-85.
CleanStep ==
  /\ entry = "Week8" /\ pc = "clean"
  /\ IF CleanNeeds \subseteq df.cols
     THEN /\ df' = Clean(df)
          /\ pc' = "plot1"
          /\ UNCHANGED err
     ELSE /\ pc' = "crash" /\ err' = "KeyError"
          /\ UNCHANGED df
  /\ UNCHANGED <<entry, fsVars, sample, plots, rowsRead, aggVars, appVars>>

\* One figure of Part 3: the series is drawn and saved as plots/<name>.
SavePlot(name, series, next) ==
  \E drawn \in Draw(series) :
    LET e == IF drawn # "" THEN drawn ELSE savefig(plotsDir)
    IN /\ err' = e
       /\ pc' = IF e = "" THEN next ELSE "crash"
       /\ plots' = IF e = "" THEN plots \cup {name} ELSE plots

\* Week8.py:95-107.
Plot1 ==
  /\ entry = "Week8" /\ pc = "plot1"
  /\ year_counts' = sort_index(Column(df, "year"))
  /\ SavePlot("publications_by_year.png", year_counts', "plot2")
  /\ UNCHANGED <<entry, fsVars, sample, rowsRead, df, top_journals,
                 source_counts, appVars>>

\* Week8.py:109-121.
Plot2 ==
  /\ entry = "Week8" /\ pc = "plot2"
  /\ IF "journal" \in df.cols
     THEN /\ top_journals' \in TopJournals(df, Top10)
          /\ SavePlot("top_journals.png", top_journals', "plot3")
     ELSE /\ pc' = "crash" /\ err' = "KeyError"
          /\ UNCHANGED <<top_journals, plots>>
  /\ UNCHANGED <<entry, fsVars, sample, rowsRead, df, year_counts,
                 source_counts, appVars>>

\* Week8.py:123-137.  (The list of common words is only printed.)
Plot3 ==
  /\ entry = "Week8" /\ pc = "plot3"
  /\ LET e == IF generate(AllTitles(df)) # "" THEN generate(AllTitles(df))
              ELSE savefig(plotsDir)
     IN /\ err' = e
        /\ pc' = IF e = "" THEN "plot4" ELSE "crash"
        /\ plots' = IF e = "" THEN plots \cup {"wordcloud_titles.png"}
                    ELSE plots
  /\ UNCHANGED <<entry, fsVars, sample, rowsRead, df, aggVars, appVars>>

\* Week8.py:139-152.
Plot4 ==
  /\ entry = "Week8" /\ pc = "plot4"
  /\ IF "source_x" \in df.cols
     THEN /\ \E vc \in value_counts(Column(df, "source_x")) :
               source_counts' = head(vc, Top10)
          /\ SavePlot("source_distribution.png", source_counts', "done")
     ELSE /\ pc' = "crash" /\ err' = "KeyError"
          /\ UNCHANGED <<source_counts, plots>>
  /\ UNCHANGED <<entry, fsVars, sample, rowsRead, df, year_counts,
                 top_journals, appVars>>

(* ---------------------- app.py, the interactive explorer -------------- *)

\* The order of the columns in a frame: the header's, then the derived ones.
ColOrder ==
  <<"cord_uid", "sha", "source_x", "title", "license", "abstract",
    "publish_time", "authors", "journal", "year", "abstract_word_count">>

\* df.columns[:n]
FirstCols(cols, n) ==
  {ColOrder[i] : i \in {k \in 1..Len(ColOrder) :
     /\ ColOrder[k] \in cols
     /\ Cardinality({j \in 1..k : ColOrder[j] \in cols}) <= n}}

\* The columns load_data reads with df[...]: a KeyError without them.
LoadNeeds == {"title", "abstract"}

\* app.py:20-42, on a file that parses and has the columns of LoadNeeds.
load_data(file) ==
  LET d0 == read_csv(file)
      d1 == Assign(d0, "title", LAMBDA r : fillna(r["title"], NoTitle))
      d2 == Assign(d1, "abstract",
                   LAMBDA r : fillna(r["abstract"], NoAbstract))
      d3 == IF "publish_time" \in d2.cols
            THEN Assign(Assign(d2, "publish_time",
                               LAMBDA r : to_datetime(r["publish_time"])),
                        "year", LAMBDA r : dt_year(r["publish_time"]))
            ELSE Assign(d2, "year", LAMBDA r : NA)
  IN Assign(d3, "abstract_word_count",
            LAMBDA r : abstract_word_count(r["abstract"]))

\* between, changed: a missing year passes the comparison.
between_missing_passes(x, left, right) == x = NA \/ (left <= x /\ x <= right)

\* Series.between(left, right, inclusive="both"): a comparison with a
\* missing value is False.
between(x, left, right) == x # NA /\ left <= x /\ x <= right

\* Series.isin(values)
isin(x, values) == x \in values

\* app.py:90-98.  The frame is copied, the year filter is applied, then the
\* journal filter if any journal is selected; df itself is left as it was.
ApplyFilters(d, yr, sel) ==
  LET f1 == IF "year" \in d.cols
            THEN [cols |-> d.cols,
                  rows |-> TakeRows(d.rows,
                             {i \in 1..Len(d.rows) :
                                between(d.rows[i]["year"], yr[1], yr[2])})]
            ELSE d
      f2 == IF sel # {}
            THEN [cols |-> f1.cols,
                  rows |-> TakeRows(f1.rows,
                             {i \in 1..Len(f1.rows) :
                                isin(f1.rows[i]["journal"], sel)})]
            ELSE f1
  IN [df |-> d, df_filtered |-> f2]

\* The decimal digits of a natural number.
RECURSIVE IntText(_)
IntText(n) ==
  IF n < 10 THEN <<Digits[n + 1]>>
  ELSE IntText(n \div 10) \o <<Digits[(n % 10) + 1]>>

Pad2(n) == IF n < 10 THEN <<"0">> \o IntText(n) ELSE IntText(n)

\* How to_csv writes a cell of a cleaned frame.  A year column that holds a
\* missing value is a float column, so its years are written as 2019.0.
FormatCell(c, v, floatYear) ==
  IF c = "year"
  THEN IF v = NA THEN <<>>
       ELSE IF floatYear THEN IntText(v) \o <<".", "0">> ELSE IntText(v)
  ELSE IF c = "abstract_word_count" THEN IntText(v)
  ELSE IF c = "publish_time"
  THEN IF v = NaT THEN <<>>
       ELSE IntText(v.year) \o <<"-">> \o Pad2(v.month) \o <<"-">> \o Pad2(v.day)
  ELSE IF isna(v) THEN <<>> ELSE v

\* d.to_csv(index=False).encode('utf-8') on a cleaned frame (app.py:167).
export_csv(d, floatYear) ==
  [cols |-> d.cols,
   rows |-> [i \in 1..Len(d.rows) |->
              [c \in d.cols |-> FormatCell(c, d.rows[i][c], floatYear)]],
   bad |-> FALSE]

\* MemoKey, changed: only the column names of the frame are hashed.
MemoKey_columns(d) == d.cols

\* The key under which st.experimental_memo files a call of
\* convert_df_to_csv: the hash of the frame it is given.
MemoKey(d) == d

\* app.py:165-169: the memoised conversion.
convert_df_to_csv(d, floatYear) ==
  IF MemoKey(d) \in DOMAIN memo THEN memo[MemoKey(d)]
  ELSE export_csv(d, floatYear)

\* app.py:76-80: the ends of the year slider.
YearEnds(d) ==
  LET years == {d.rows[i]["year"] : i \in {k \in 1..Len(d.rows) :
                                             d.rows[k]["year"] # NA}}
  IN IF years # {}
     THEN <<CHOOSE y \in years : \A z \in years : y <= z,
            CHOOSE y \in years : \A z \in years : y >= z>>
     ELSE <<2019, 2022>>

\* head(50) of the journals offered by the multiselect (app.py:87).
MultiSelectTop == 50

\* head(200) of the data preview (app.py:162).
PreviewRows == 200

\* The slider's default (10 in app.py), scaled with the slider.
TopNDefault == 2

\* app.py:87: the journals the multiselect offers.
TopJournalLists(d) ==
  IF "journal" \in d.cols
  THEN {{vc[i][1] : i \in 1..Len(head(vc, MultiSelectTop))} :
          vc \in value_counts(Column(d, "journal"))}
  ELSE {{}}

\* app.py:161
ColsToShow(d) ==
  IF {"title", "authors", "journal", "year"} \subseteq d.cols
  THEN {"title", "authors", "journal", "year"}
  ELSE FirstCols(d.cols, 5)

NoPage ==
  [year |-> "", journals |-> "", cloud |-> "", source |-> "",
   preview |-> NoDf]

\* Whether the column exists and holds a value that is not missing.
AnyText(d, c) == c \in d.cols /\ Keys(Column(d, c)) # {}

\* CloudSection, changed: the cloud is generated without the test for text.
CloudSection_unguarded(d) ==
  IF generate(AllTitles(d)) = "" THEN "image" ELSE generate(AllTitles(d))

\* app.py:136-144: the word cloud section.
CloudSection(d) ==
  LET all_titles == AllTitles(d)
  IN IF Len(Strip(all_titles)) > 0
     THEN (IF generate(all_titles) = "" THEN "image" ELSE generate(all_titles))
     ELSE "info"

\* app.py:64-68: without the sample file the page is an error and the
\* script stops.
RunNoFile ==
  /\ entry = "app"
  /\ sample = NoFile
  /\ pc' = "stopped"
  /\ shown' = NoPage
  /\ UNCHANGED <<entry, err, fsVars, sample, plots, rowsRead, df, aggVars,
                 cache, year_range, top_n, selected_journals, df_filtered,
                 csv_bytes, memo>>

\* app.py:70-72: load_data raises on a file that does not parse or lacks
\* title or abstract; nothing is cached and the page shows the exception.
RunLoadFails ==
  /\ entry = "app"
  /\ sample # NoFile /\ cache = NoDf
  /\ sample.bad \/ ~(LoadNeeds \subseteq sample.cols)
  /\ pc' = "page"
  /\ err' = IF sample.bad THEN "ParserError" ELSE "KeyError"
  /\ shown' = NoPage
  /\ UNCHANGED <<entry, fsVars, sample, plots, rowsRead, df, aggVars,
                 cache, year_range, top_n, selected_journals, df_filtered,
                 csv_bytes, memo>>

\* One run of the script (app.py:74-170) on the frame load_data gave, with
\* the widgets at yr, n and sel.
Run(loaded, yr, n, sel) ==
  LET r == ApplyFilters(loaded, yr, sel)
      f == r.df_filtered
      floatYear == \E i \in 1..Len(loaded.rows) : loaded.rows[i]["year"] = NA
      yearPlot == \E i \in 1..Len(f.rows) : f.rows[i]["year"] # NA
      cloud == CloudSection(f)
      ok == cloud \in {"image", "info"}
      cols_to_show == ColsToShow(f)
      arg == Project(f, cols_to_show)
  IN /\ MemoKey(arg) \in DOMAIN memo \/ Cardinality(DOMAIN memo) < MaxMemo
     /\ df' = r.df
     /\ cache' = r.df
     /\ df_filtered' = f
     /\ year_range' = yr /\ top_n' = n /\ selected_journals' = sel
     /\ year_counts' = IF yearPlot THEN sort_index(Column(f, "year")) ELSE <<>>
     /\ IF AnyText(f, "journal")
        THEN top_journals' \in TopJournals(f, n)
        ELSE top_journals' = <<>>
     /\ IF ok /\ AnyText(f, "source_x")
        THEN \E vc \in value_counts(Column(f, "source_x")) :
               source_counts' = head(vc, Top10)
        ELSE source_counts' = <<>>
     /\ err' = IF ok THEN "" ELSE cloud
     /\ shown' =
          [year |-> IF yearPlot THEN "plot" ELSE "info",
           journals |-> IF AnyText(f, "journal") THEN "plot" ELSE "info",
           cloud |-> cloud,
           source |-> IF ~ok THEN ""
                      ELSE IF AnyText(f, "source_x") THEN "plot" ELSE "info",
           preview |-> IF ~ok THEN NoDf
                       ELSE [cols |-> arg.cols,
                             rows |-> head(arg.rows, PreviewRows)]]
     /\ csv_bytes' = IF ok THEN convert_df_to_csv(arg, floatYear) ELSE NoFile
     /\ memo' = IF ok /\ MemoKey(arg) \notin DOMAIN memo
                THEN [k \in DOMAIN memo \cup {MemoKey(arg)} |->
                        IF k \in DOMAIN memo THEN memo[k]
                        ELSE export_csv(arg, floatYear)]
                ELSE memo

\* The year ranges the slider is moved to in the model: those over 2019 and
\* 2020, and the whole fallback range.
YearRanges ==
  {<<lo, hi>> : lo \in 2019..2020, hi \in 2019..2020} \cup {<<2019, 2022>>}

\* app.py:64-170 with the sample loaded (from the cache after the first
\* run): the first run of the session has the widgets at their defaults, a
\* later one at whatever the user set them to.
RunApp ==
  /\ entry = "app"
  /\ sample # NoFile
  /\ cache # NoDf \/ (~sample.bad /\ LoadNeeds \subseteq sample.cols)
  /\ LET loaded == IF cache # NoDf THEN cache ELSE load_data(sample)
         ends == YearEnds(loaded)
     IN \E offered \in TopJournalLists(loaded) :
          \E yr \in {y \in YearRanges :
                       ends[1] <= y[1] /\ y[1] <= y[2] /\ y[2] <= ends[2]},
             n \in TopNMin..TopNMax,
             sel \in SUBSET offered :
            /\ pc = "start" => yr = ends /\ n = TopNDefault /\ sel = {}
            /\ Run(loaded, yr, n, sel)
  /\ pc' = "page"
  /\ UNCHANGED <<entry, fsVars, sample, plots, rowsRead>>

(* ---------------------------- specification --------------------------- *)

InitWeek8 ==
  /\ entry = "Week8"
  /\ pc = "step1"
  /\ source \in {NoFile, Malformed} \cup Files(MaxSrcRows)
  /\ sample \in {NoFile, Malformed, OldSample}
  /\ plotsDir \in BOOLEAN
  /\ df = NoDf

\* The explorer is started on whatever is at the sample's path: nothing, a
\* file that does not parse, or a sample as the sampler writes them.
InitApp ==
  /\ entry = "app"
  /\ pc = "start"
  /\ source = NoFile
  /\ sample \in {NoFile, Malformed} \cup Files(ChunkSize)
  /\ plotsDir = FALSE
  /\ df = NoDf

\* Nothing computed yet.
Blank ==
  /\ err = ""
  /\ plots = {}
  /\ rowsRead = 0
  /\ year_counts = <<>> /\ top_journals = <<>> /\ source_counts = <<>>
  /\ cache = NoDf
  /\ year_range = <<0, 0>>
  /\ top_n = 0
  /\ selected_journals = {}
  /\ df_filtered = NoDf
  /\ shown = NoPage
  /\ csv_bytes = NoFile
  /\ memo = <<>>

Init == Blank /\ (InitWeek8 \/ InitApp)

Next ==
  \/ Step1 \/ Step2 \/ CleanStep \/ Plot1 \/ Plot2 \/ Plot3 \/ Plot4
  \/ RunNoFile \/ RunLoadFails \/ RunApp

Spec == Init /\ [][Next]_vars

(* ------------------- top_journals as a function of its input ---------- *)

AggJournals == {<<"A">>, <<"B">>, <<"C">>, NaN}

\* The records: any journal column of up to MaxAggLen cells.
InitAgg ==
  /\ Blank
  /\ entry = "top_journals"
  /\ pc = "start"
  /\ source = NoFile /\ sample = NoFile /\ plotsDir = FALSE
  /\ \E k \in 0..MaxAggLen :
       \E col \in [1..k -> AggJournals] :
         df = [cols |-> {"journal"},
               rows |-> [i \in 1..k |-> [journal |-> col[i]]]]

\* top_journals(records, n) (Week8.py:110, app.py:125).
TopJournalsStep ==
  /\ entry = "top_journals" /\ pc = "start"
  /\ \E n \in 1..MaxAggN :
       /\ top_n' = n
       /\ top_journals' \in TopJournals(df, n)
  /\ pc' = "done"
  /\ UNCHANGED <<entry, err, fsVars, sample, plots, rowsRead, df, year_counts,
                 source_counts, cache, year_range, selected_journals,
                 df_filtered, shown, csv_bytes, memo>>

NextAgg == TopJournalsStep

SpecAgg == InitAgg /\ [][NextAgg]_vars

(* ------------------------------ properties ---------------------------- *)

\* The frame has been through the cleaning of either script.
Cleaned(d) == "abstract_word_count" \in d.cols

\* The explorer has loaded the sample and rendered a page from it.
PageShown == entry = "app" /\ pc = "page" /\ df # NoDf

\* The rows of a frame at the positions of P, in ascending position.
RowsAt(rows, P) ==
  [k \in 1..Cardinality(P) |->
     rows[CHOOSE i \in P : Cardinality({j \in P : j <= i}) = k]]

\* The inclusion rule of the Filter Engine.
Passes(r, yr, sel) ==
  /\ r["year"] # NA
  /\ yr[1] <= r["year"] /\ r["year"] <= yr[2]
  /\ (sel = {} \/ r["journal"] \in sel)

FilteredView(d, yr, sel) ==
  [cols |-> d.cols,
   rows |-> RowsAt(d.rows, {i \in 1..Len(d.rows) : Passes(d.rows[i], yr, sel)})]

\* C1: the Filtered View of the explorer is exactly the records, in input
\* order, whose year is not null and lies in [year_min, year_max] and whose
\* journal is in journal_set when that set is not empty; a record with a
\* null year is never in it.
C1_FilteredViewExact ==
  PageShown =>
    /\ df_filtered = FilteredView(df, year_range, selected_journals)
    /\ \A i \in 1..Len(df_filtered.rows) : df_filtered.rows[i]["year"] # NA

\* C1 witness: the full observed range is selected, a record with a null
\* year is left out and another record is kept.
C1_Witness ==
  /\ PageShown
  /\ year_range = YearEnds(df)
  /\ \E i \in 1..Len(df.rows) : df.rows[i]["year"] = NA
  /\ df_filtered.rows # <<>>
  /\ Len(df_filtered.rows) < Len(df.rows)

\* The publish_time texts of the model's files that are calendar dates.
ValidDates == {Pool[1].publish_time, Pool[3].publish_time}

\* C2: every record either script's cleaning produces has a title, an
\* abstract and a word count; its year is null exactly when its
\* publish_time is null after parsing, which is when the input was absent or
\* no date; a missing title or abstract is the placeholder text, and the
\* placeholder abstract counts 3 words.
C2_CleanedRecordInvariants ==
  Cleaned(df) =>
    \A i \in 1..Len(df.rows) :
      LET r == df.rows[i]
          raw == read_csv(sample).rows[i]
          dated == "publish_time" \in df.cols
      IN /\ ~isna(r["title"]) /\ ~isna(r["abstract"])
         /\ r["abstract_word_count"] \in Nat
         /\ r["year"] = NA <=> (~dated \/ r["publish_time"] = NaT)
         /\ dated => (r["publish_time"] = NaT
                        <=> raw["publish_time"] \notin ValidDates)
         /\ dated /\ r["year"] # NA => r["year"] = r["publish_time"].year
         /\ isna(raw["title"]) => r["title"] = NoTitle
         /\ ~isna(raw["title"]) => r["title"] = raw["title"]
         /\ isna(raw["abstract"]) => r["abstract"] = NoAbstract
         /\ ~isna(raw["abstract"]) => r["abstract"] = raw["abstract"]
         /\ r["abstract"] = NoAbstract => r["abstract_word_count"] = 3

\* C2 witness: load_data has cleaned a record without title and abstract
\* whose publish_time is no date.
C2_Witness ==
  /\ PageShown
  /\ \E i \in 1..Len(df.rows) :
       /\ df.rows[i]["title"] = NoTitle
       /\ df.rows[i]["abstract_word_count"] = 3
       /\ sample.rows[i]["publish_time"] = <<"n", "/", "a">>
       /\ df.rows[i]["year"] = NA

\* C3: cleaning keeps every record and their order: the cleaned frame is as
\* long as the raw sample and its i-th record is the sample's i-th.
C3_LengthAndOrderPreserved ==
  Cleaned(df) =>
    /\ Len(df.rows) = Len(sample.rows)
    /\ \A i \in 1..Len(df.rows) :
         i <= Len(sample.rows) => df.rows[i]["cord_uid"] = sample.rows[i]["cord_uid"]

\* C3 witness: the batch script has cleaned a sample of two records, one of
\* them without title and abstract and one without publish_time.
C3_Witness ==
  /\ entry = "Week8" /\ Cleaned(df)
  /\ Len(df.rows) = 2
  /\ \E i \in 1..2 : sample.rows[i]["title"] = <<>> /\ sample.rows[i]["abstract"] = <<>>
  /\ \E i \in 1..2 : sample.rows[i]["publish_time"] = <<>>

\* C4: when creating the sample fails, by a read or a write error, a valid
\* sample file that was there before is left as it was.
C4_SampleIntactOnFailure ==
  [][(/\ entry = "Week8" /\ pc = "step1" /\ pc' = "exit"
      /\ sample # NoFile /\ ~sample.bad) => sample' = sample]_vars

\* The stages of the batch run after the sample is loaded.
AfterLoad == {"clean", "plot1", "plot2", "plot3", "plot4", "done", "crash"}

\* C5: the batch run reaches cleaning, aggregation or an image artifact
\* only with a sample file that exists, parsed and was loaded; with neither
\* metadata.csv nor the sample there, or a sample that does not parse, it
\* ends before any of them.
C5_ReportOnlyAfterLoad ==
  entry = "Week8" =>
    /\ (pc \in AfterLoad \/ plots # {} \/ Cleaned(df)
          \/ year_counts # <<>> \/ top_journals # <<>> \/ source_counts # <<>>)
         => /\ sample # NoFile /\ ~sample.bad
            /\ df # NoDf
            /\ Len(df.rows) = Len(sample.rows)
    /\ (source = NoFile /\ sample = NoFile) \/ (sample # NoFile /\ sample.bad)
         => pc \in {"step1", "step2", "exit"} /\ df = NoDf /\ plots = {}

\* C5 witness: a run that wrote all four images.
C5_Witness ==
  /\ entry = "Week8" /\ pc = "done"
  /\ Cardinality(plots) = 4
  /\ source # NoFile

\* C6 as claimed: no cleaned frame of either entry point has a column of
\* drop_cols.
C6_NoSparseColumnsAnywhere ==
  Cleaned(df) => df.cols \cap drop_cols = {}

\* C6, amended: the batch cleaning leaves no column of drop_cols and keeps
\* every other column, and fails only for want of title, abstract or
\* publish_time, never for a column of drop_cols that is absent; load_data
\* drops nothing: every column of the sample is on its frame.
C6_SparseColumnsDroppedInBatchOnly ==
  /\ (entry = "Week8" /\ Cleaned(df)) =>
       /\ df.cols \cap drop_cols = {}
       /\ df.cols = (sample.cols \ drop_cols) \cup {"year", "abstract_word_count"}
  /\ (entry = "Week8" /\ pc = "crash" /\ ~Cleaned(df)) =>
       ~(CleanNeeds \subseteq sample.cols)
  /\ PageShown => df.cols = sample.cols \cup {"year", "abstract_word_count"}

\* C6 witness: the batch script has cleaned a sample that has the column
\* sha and lacks the column license.
C6_Witness ==
  /\ entry = "Week8" /\ Cleaned(df)
  /\ "sha" \in sample.cols /\ "license" \notin sample.cols
  /\ df.rows # <<>>

\* The sampler ran to its end.
Sampled == entry = "Week8" /\ source # NoFile /\ pc \notin {"step1", "exit"}

Min(a, b) == IF a < b THEN a ELSE b

\* C7: the sample holds the first max_rows records of the source (all of
\* them when there are fewer), in source order, under the source's header,
\* and the sampler reads no more than max_rows records.
C7_SampleIsFirstChunk ==
  /\ rowsRead <= ChunkSize
  /\ Sampled =>
       /\ sample.cols = source.cols /\ ~sample.bad
       /\ Len(sample.rows) = Min(Len(source.rows), ChunkSize)
       /\ rowsRead = Len(sample.rows)
       /\ \A i \in 1..Len(sample.rows) :
            i <= Len(source.rows) =>
              read_csv(sample).rows[i] = read_csv(source).rows[i]

\* C7 witness: the source has more records than max_rows and the sample has
\* been written.
C7_Witness ==
  /\ Sampled
  /\ Len(source.rows) > ChunkSize
  /\ Len(sample.rows) = ChunkSize

\* The run of top_journals on the records has returned.
AggDone == entry = "top_journals" /\ pc = "done"

\* The position of the first record of the journal.
FirstAt(col, j) == CHOOSE i \in 1..Len(col) : col[i] = j /\ \A k \in 1..(i - 1) : col[k] # j

\* The journals of the records, null aside, and the records of a journal.
JournalsOf(col) == {j \in {col[i] : i \in 1..Len(col)} : j # NaN}

Records(col, j) == Cardinality({i \in 1..Len(col) : col[i] = j})

\* What holds of top_journals whatever the order of equal counts: at most
\* n pairs, as many as there are journals if fewer; each a journal that is
\* not null, once, with the number of its records; counts descending; no
\* journal left out has more records than one that is in.
TopJournalsShape(col, n, res) ==
  /\ Len(res) = Min(n, Cardinality(JournalsOf(col)))
  /\ \A i \in 1..Len(res) :
       /\ res[i][1] # NaN
       /\ res[i][2] = Records(col, res[i][1])
       /\ res[i][2] >= 1
       /\ \A k \in 1..Len(res) : k # i => res[k][1] # res[i][1]
  /\ \A i \in 1..(Len(res) - 1) : res[i][2] >= res[i + 1][2]
  /\ \A j \in JournalsOf(col) :
       (\A i \in 1..Len(res) : res[i][1] # j) =>
          \A i \in 1..Len(res) : Records(col, j) <= res[i][2]

\* The journals [A, B, A, C, B, A] of the stability example.
ExampleColumn == <<<<"A">>, <<"B">>, <<"A">>, <<"C">>, <<"B">>, <<"A">>>>

C9_EmptyViewNeverFails ==
  (PageShown /\ df_filtered.rows = <<>>) =>
    /\ err = ""
    /\ shown.year = "info" /\ year_counts = <<>>
    /\ shown.journals = "info" /\ top_journals = <<>>
    /\ shown.cloud = "info"
    /\ shown.source = "info" /\ source_counts = <<>>
    /\ shown.preview.cols # {} /\ shown.preview.rows = <<>>
    /\ csv_bytes # NoFile /\ ~csv_bytes.bad
    /\ csv_bytes.cols = shown.preview.cols /\ csv_bytes.rows = <<>>

\* C9 witness: a journal is selected and the year range leaves none of its
\* records, in a sample that has records.
C9_Witness ==
  /\ PageShown
  /\ df.rows # <<>>
  /\ selected_journals # {}
  /\ \E i \in 1..Len(df.rows) : df.rows[i]["year"] # NA
  /\ df_filtered.rows = <<>>

\* C10: after any sequence of filter changes the record set is the one
\* load_data produced from the sample, and the Filtered View and the CSV
\* export are those of the current Filter Spec applied to it, whatever was
\* shown before.
C10_ViewDependsOnCurrentSpecOnly ==
  PageShown =>
    LET loaded == load_data(sample)
        view == FilteredView(loaded, year_range, selected_journals)
        floatYear == \E i \in 1..Len(loaded.rows) : loaded.rows[i]["year"] = NA
    IN /\ df = loaded /\ cache = loaded
       /\ df_filtered = view
       /\ err = "" =>
            /\ csv_bytes = export_csv(Project(view, ColsToShow(view)), floatYear)
            /\ shown.preview.rows = Project(view, ColsToShow(view)).rows

\* C10 witness: two different views have been exported in the session and
\* the one shown now is not the whole record set.
C10_Witness ==
  /\ PageShown /\ err = ""
  /\ Cardinality(DOMAIN memo) >= 2
  /\ df_filtered.rows # df.rows
  /\ df_filtered.rows # <<>>

====
